---- MODULE Spec2Model ----
(***************************************************************************)
(* Relabel: print-event ledger, per-tracking-number aggregate and access   *)
(* code verification.                                                       *)
(*                                                                         *)
(* The repository holds two implementations of the client API:             *)
(*   "app"    src/app/main.py + src/app/print_ext.py (SQLite, raw SQL       *)
(*            aggregate update, report handler is a coroutine)             *)
(*   "server" src/apps/server/app/routes_client_api.py (ORM unit of work,   *)
(*            handlers run in the thread pool)                             *)
(* A deployment runs one of them; Init chooses which.                      *)
(*                                                                         *)
(* Strings that the code trims are sequences of one-character strings, so   *)
(* that trimming is computed.  Times are integers; None is NoTime.          *)
(***************************************************************************)
EXTENDS Integers, Sequences, FiniteSets, TLC

VARIABLES
    deployment,     \* which implementation serves the API: "app" or "server"
    now,            \* the value the next datetime.utcnow() returns
    tracking_file,  \* table tracking_file: tracking_no -> aggregate row
    print_events,   \* table print_events in commit order
    next_id,        \* autoincrement counter of print_events.id
    req,            \* per request slot: position in the report handler and its locals
    loop,           \* request slot that occupies the event loop (0: none)
    acked,          \* per tracking_no: reports answered 200, by kind of result
    client_auth,    \* table client_auth: id -> access-code row
    vreq,           \* per verifier slot: position in verify_code and its locals
    failed_since_ok,\* per code: rejected well-formed attempts since its last success
    fifth_at,       \* per code: the time of the fifth such rejection in a row
    locked_at,      \* per code: the time its row went from unlocked to locked
    reply,          \* the response to the last request served as a whole
    mapping_file,   \* the file at DATA_DIR/mapping.json
    mapping_version,\* meta key mapping_version: the publications counted, or the now_iso() set
    writer,         \* per thread: position in write_mapping_json and its file offset
    inodes,         \* the archive files ever created: inode -> content
    zip_file,       \* the inode at ZIP_DIR/pdfs-<date>.zip (NoFile: no such path)
    zip_tmp,        \* the inode at ZIP_DIR/pdfs-<date>.zip.tmp
    builder,        \* per thread: position in build_daily_pdf_zip and its open file
    sidecar         \* the file at ZIP_DIR/pdfs-<date>.zip.sha256

reportvars == <<tracking_file, print_events, next_id, req, loop, acked>>
authvars == <<client_auth, vreq, failed_since_ok, fifth_at, locked_at>>
outvars == <<reply>>
filevars == <<mapping_file, mapping_version, writer, inodes, zip_file, zip_tmp, builder,
              sidecar>>
vars == <<deployment, now, reportvars, authvars, outvars, filevars>>

----------------------------------------------------------------------------
(* Bounds of the model *)

NumProcs == 2
MaxReports == 3
NumVerifiers == 2
AuthHorizon == 5
MaxFail == 6

Procs == 1..NumProcs
Verifiers == 1..NumVerifiers

----------------------------------------------------------------------------
(* Values *)

NoTime == -1

TrackingInputs == {<<>>, <<" ">>, <<"A">>, <<" ", "B">>}
ResultInputs == {"success", "fail", "success_reprint", "bogus"}
\* two client machines share the request slots; each reports its own host name
HostOf(p) == IF p % 2 = 1 THEN "h1" ELSE "h2"

SuccessResults == {"success", "success_reprint"}


RECURSIVE lstrip(_)
lstrip(s) == IF s # <<>> /\ Head(s) = " " THEN lstrip(Tail(s)) ELSE s

RECURSIVE rstrip(_)
rstrip(s) == IF s # <<>> /\ s[Len(s)] = " " THEN rstrip(SubSeq(s, 1, Len(s) - 1)) ELSE s

\* (s or "").strip()
_norm(s) == rstrip(lstrip(s))

\* bodies that pass the structural validation of the specification
ValidTracking == {tn \in TrackingInputs : _norm(tn) # <<>>}
ValidResults == {"success", "fail", "success_reprint"}

Idle == [pc |-> "idle", tracking_no |-> <<>>, result |-> "", host |-> "",
         row |-> <<>>, cnt |-> 0, t |-> NoTime, id |-> 0]

----------------------------------------------------------------------------
(* Tables *)

\* A tracking_file row as the ORM / the INSERT of _update_tracking_aggregate creates it
NewRow == [print_count |-> 0, print_status |-> "not_printed",
           first_print_time |-> NoTime, last_print_time |-> NoTime,
           last_print_client_name |-> ""]

HasRow(tn) == tn \in DOMAIN tracking_file

\* the table with the row of tn inserted or replaced
PutRow(tn, row) ==
    [k \in DOMAIN tracking_file \cup {tn} |-> IF k = tn THEN row ELSE tracking_file[k]]

\* PrintEvent(...) ; db.add(ev)
NewEvent(id, tn, result, host) ==
    [id |-> id, tracking_no |-> tn, result |-> result, host |-> host]

AllIdle == \A p \in Procs : req[p].pc = "idle"

\* the keys a report can address: as sent ("server") or trimmed ("app")
Keys == TrackingInputs \cup {_norm(tn) : tn \in TrackingInputs}

\* the tally after one more 200 response for tn
Ack(tn, result) ==
    [acked EXCEPT ![tn] = IF result \in SuccessResults
                          THEN [@ EXCEPT !.success = @ + 1]
                          ELSE [@ EXCEPT !.other = @ + 1]]

\* one more report may be accepted: at most MaxReports reports reach the tables
\* ("server" reads the clock once per report, "app" appends its event at once)
Accepting ==
    IF deployment = "server" THEN now < MaxReports ELSE Len(print_events) < MaxReports

----------------------------------------------------------------------------
(* "server": routes_client_api.print_report.  The handler is a plain def, so  *)
(* FastAPI runs it in the thread pool: requests interleave between the query  *)
(* of the TrackingFile row and db.commit().  DATABASE_URL defaults to          *)
(* PostgreSQL (READ COMMITTED): the query of the row flushes the pending       *)
(* event first, so its INSERT draws the id from the sequence there; the row is *)
(* visible to others from the commit, with the INSERT/UPDATE of the aggregate. *)

\* payload.get("host") or "client"
HostOrClient(host) == IF host = "" THEN "client" ELSE host

\* variant: the count of an existing row is written back without the increment
ServerApply_NoIncrement(loaded, isNew, host, t) ==
    LET cnt == IF isNew THEN 1 ELSE loaded.print_count IN
    [print_count |-> cnt,
     print_status |-> IF cnt = 1 THEN "printed" ELSE "reprinted",
     first_print_time |-> IF isNew \/ loaded.first_print_time = NoTime
                          THEN t ELSE loaded.first_print_time,
     last_print_time |-> t,
     last_print_client_name |-> HostOrClient(host)]

\* tf.print_count = (tf.print_count or 0) + 1 ... tf.last_print_client_name = ...
\* applied to the loaded (or new, all attributes None) object
ServerApply(loaded, isNew, host, t) ==
    LET cnt == (IF isNew THEN 0 ELSE loaded.print_count) + 1 IN
    [print_count |-> cnt,
     print_status |-> IF cnt = 1 THEN "printed" ELSE "reprinted",
     first_print_time |-> IF isNew \/ loaded.first_print_time = NoTime
                          THEN t ELSE loaded.first_print_time,
     last_print_time |-> t,
     last_print_client_name |-> HostOrClient(host)]

\* The UPDATE the unit of work emits: only the attributes whose value differs
\* from the loaded one are SET, the other columns keep what the table holds.
FlushUpdate(loaded, new, current) ==
    [f \in DOMAIN current |-> IF new[f] # loaded[f] THEN new[f] ELSE current[f]]

\* lines 110-136: validate, build the event, query the row
print_report_read(p, tns, results) ==
    /\ deployment = "server"
    /\ req[p].pc = "idle"
    /\ Accepting
    /\ \E tn \in tns, result \in results :
          IF tn = <<>>
          THEN \* 400 tracking_no required
               UNCHANGED <<req, now, next_id>>
          ELSE /\ req' = [req EXCEPT ![p] =
                           [pc |-> "commit", tracking_no |-> tn, result |-> result,
                            host |-> HostOf(p),
                            row |-> IF HasRow(tn) THEN <<tracking_file[tn]>> ELSE <<>>,
                            cnt |-> 0, t |-> now, id |-> next_id]]
               /\ now' = now + 1
               /\ next_id' = next_id + 1
    /\ UNCHANGED <<deployment, tracking_file, print_events, loop, acked>>
    /\ UNCHANGED authvars
    /\ UNCHANGED outvars
    /\ UNCHANGED filevars

\* lines 137-143: mutate the object, db.commit()
print_report_commit(p) ==
    /\ deployment = "server"
    /\ req[p].pc = "commit"
    /\ LET r == req[p]
           tn == r.tracking_no
           isNew == r.row = <<>>
           loaded == IF isNew THEN NewRow ELSE r.row[1]
           new == ServerApply(loaded, isNew, r.host, r.t)
           ev == NewEvent(r.id, tn, r.result, r.host)
       IN  IF isNew /\ HasRow(tn)
           THEN \* unique(tracking_no) violated: IntegrityError, rollback, 500
                UNCHANGED <<tracking_file, print_events, acked>>
           ELSE IF ~isNew /\ ~HasRow(tn)
           THEN \* UPDATE matches no row: StaleDataError, rollback, 500
                UNCHANGED <<tracking_file, print_events, acked>>
           ELSE /\ tracking_file' =
                      PutRow(tn, IF isNew THEN new
                                 ELSE FlushUpdate(loaded, new, tracking_file[tn]))
                /\ print_events' = Append(print_events, ev)
                \* lines 144-150: the response
                /\ acked' = Ack(tn, r.result)
    /\ req' = [req EXCEPT ![p] = Idle]
    /\ UNCHANGED <<deployment, now, next_id, loop>>
    /\ UNCHANGED authvars
    /\ UNCHANGED outvars
    /\ UNCHANGED filevars

\* the request dies before db.commit() (connection lost, worker killed): rollback
print_report_abort(p) ==
    /\ deployment = "server"
    /\ req[p].pc = "commit"
    /\ req' = [req EXCEPT ![p] = Idle]
    /\ UNCHANGED <<deployment, now, tracking_file, print_events, next_id, loop, acked>>
    /\ UNCHANGED authvars
    /\ UNCHANGED outvars
    /\ UNCHANGED filevars

----------------------------------------------------------------------------
(* "app": print_ext.api_print_report and _update_tracking_aggregate.  The      *)
(* handler is a coroutine that never awaits after reading the body, and       *)
(* run.py starts uvicorn with workers=1: a report occupies the event loop     *)
(* from its first statement to its response, so reports do not interleave     *)
(* with each other (handlers declared with def run in the thread pool and     *)
(* do).  The session is created with autoflush=False on SQLite: the SELECT    *)
(* runs outside a transaction, the statements that write run in one.          *)

\* run.py starts one worker process: one event loop
LoopFree == loop = 0

\* is_success=(result in ["success","success_reprint"])
is_success(result) == result \in SuccessResults

\* lines 219-251: parse the body, normalise the fields, db.add(ev); db.commit()
api_print_report(p, tns, results) ==
    /\ deployment = "app"
    /\ req[p].pc = "idle"
    /\ Accepting
    /\ LoopFree
    /\ \E tn \in tns, result \in results :
          /\ req' = [req EXCEPT ![p] =
                       [pc |-> "select", tracking_no |-> _norm(tn), result |-> result,
                        host |-> HostOf(p), row |-> <<>>, cnt |-> 0, t |-> NoTime,
                        id |-> next_id]]
          /\ print_events' = Append(print_events,
                                     NewEvent(next_id, _norm(tn), result, HostOf(p)))
    /\ next_id' = next_id + 1
    /\ loop' = p
    /\ UNCHANGED <<deployment, now, tracking_file, acked>>
    /\ UNCHANGED authvars
    /\ UNCHANGED outvars
    /\ UNCHANGED filevars

\* lines 112-126: tn = _norm(tracking_no); return if empty; now; SELECT print_count
\* (with an empty tn the handler goes on to its response, lines 255-272)
_update_tracking_aggregate_select(p) ==
    /\ deployment = "app"
    /\ req[p].pc = "select"
    /\ LET tn == _norm(req[p].tracking_no) IN
       IF tn = <<>>
       THEN /\ req' = [req EXCEPT ![p] = Idle]
            /\ loop' = 0
            /\ acked' = Ack(tn, req[p].result)
            /\ UNCHANGED now
       ELSE /\ req' = [req EXCEPT ![p] =
                         [@ EXCEPT !.pc = "update",
                                   !.tracking_no = tn,
                                   !.row = IF HasRow(tn) THEN <<tracking_file[tn]>> ELSE <<>>,
                                   !.cnt = IF HasRow(tn) THEN tracking_file[tn].print_count ELSE 0,
                                   !.t = now]]
            /\ now' = now + 1
            /\ UNCHANGED <<loop, acked>>
    /\ UNCHANGED <<deployment, tracking_file, print_events, next_id>>
    /\ UNCHANGED authvars
    /\ UNCHANGED outvars
    /\ UNCHANGED filevars

\* line 118: INSERT OR IGNORE INTO tracking_file ... 'not_printed',NULL,NULL,0,''
InsertOrIgnore(tf, tn) ==
    IF tn \in DOMAIN tf THEN tf
    ELSE [k \in DOMAIN tf \cup {tn} |-> IF k = tn THEN NewRow ELSE tf[k]]

\* lines 130-134: UPDATE ... SET print_count=1, print_status='printed', ... WHERE tracking_no=:tn
UpdateFirst(tf, tn, host, t) ==
    IF tn \notin DOMAIN tf THEN tf
    ELSE [tf EXCEPT ![tn] = [@ EXCEPT !.print_count = 1,
                                      !.print_status = "printed",
                                      !.first_print_time = t,
                                      !.last_print_time = t,
                                      !.last_print_client_name = host]]

\* variant: the second UPDATE also writes first_print_time
UpdateAgain_ResetFirst(tf, tn, host, t) ==
    IF tn \notin DOMAIN tf THEN tf
    ELSE [tf EXCEPT ![tn] = [@ EXCEPT !.print_count = @ + 1,
                                      !.print_status = "reprinted",
                                      !.first_print_time = t,
                                      !.last_print_time = t,
                                      !.last_print_client_name = host]]

\* variant: the second UPDATE leaves print_status as it is
UpdateAgain_KeepStatus(tf, tn, host, t) ==
    IF tn \notin DOMAIN tf THEN tf
    ELSE [tf EXCEPT ![tn] = [@ EXCEPT !.print_count = @ + 1,
                                      !.last_print_time = t,
                                      !.last_print_client_name = host]]

\* lines 136-139: UPDATE ... SET print_count=print_count+1, print_status='reprinted', ...
UpdateAgain(tf, tn, host, t) ==
    IF tn \notin DOMAIN tf THEN tf
    ELSE [tf EXCEPT ![tn] = [@ EXCEPT !.print_count = @ + 1,
                                      !.print_status = "reprinted",
                                      !.last_print_time = t,
                                      !.last_print_client_name = host]]

\* variant: the two UPDATE branches are swapped
AggregateWrite_Swapped(tf, tn, found, cnt, host, success, t) ==
    LET tf1 == IF found THEN tf ELSE InsertOrIgnore(tf, tn)
        c   == IF found THEN cnt ELSE 0
    IN  IF ~success THEN tf1
        ELSE IF c <= 0 THEN UpdateAgain(tf1, tn, host, t)
        ELSE UpdateFirst(tf1, tn, host, t)

\* lines 117-140 on the table: found and cnt are what the SELECT returned
AggregateWrite(tf, tn, found, cnt, host, success, t) ==
    LET tf1 == IF found THEN tf ELSE InsertOrIgnore(tf, tn)
        c   == IF found THEN cnt ELSE 0
    IN  IF ~success THEN tf1
        ELSE IF c <= 0 THEN UpdateFirst(tf1, tn, host, t)
        ELSE UpdateAgain(tf1, tn, host, t)

\* lines 117-140, then the response of lines 255-272
_update_tracking_aggregate_write(p) ==
    /\ deployment = "app"
    /\ req[p].pc = "update"
    /\ LET r == req[p] IN
       tracking_file' = AggregateWrite(tracking_file, r.tracking_no, r.row # <<>>, r.cnt,
                                       r.host, is_success(r.result), r.t)
    /\ acked' = Ack(req[p].tracking_no, req[p].result)
    /\ req' = [req EXCEPT ![p] = Idle]
    /\ loop' = 0
    /\ UNCHANGED <<deployment, now, print_events, next_id>>
    /\ UNCHANGED authvars
    /\ UNCHANGED outvars
    /\ UNCHANGED filevars

\* a statement of the handler raises (sqlite3 "database is locked", disk full) or
\* the process is killed: the session is closed, what was committed stays
api_print_report_abort(p) ==
    /\ deployment = "app"
    /\ req[p].pc \in {"select", "update"}
    /\ req' = [req EXCEPT ![p] = Idle]
    /\ loop' = 0
    /\ UNCHANGED <<deployment, now, tracking_file, print_events, next_id, acked>>
    /\ UNCHANGED authvars
    /\ UNCHANGED outvars
    /\ UNCHANGED filevars

----------------------------------------------------------------------------
(* Access codes.  "app": main.verify_code, called by every client API       *)
(* handler; the handlers declared with def run in the thread pool, so two    *)
(* verifications interleave between the SELECT of the rows and db.commit().  *)
(* "server": routes_client_api._verify_code; its client_auth table has no    *)
(* fail_count and no locked_until column, the fields keep their defaults.    *)
(* Time is counted in minutes.                                                *)

\* len(code) != 6
CodeLen == 6
\* if c.fail_count >= 5
LockThreshold == 5
\* timedelta(minutes=5)
LockMinutes == 5

CodeIds == {1, 2}

Digits == {"0", "1", "2", "3", "4", "5", "6", "7", "8", "9"}

Rep(ch, n) == [i \in 1..n |-> ch]

\* the six digits the administrator stored for the row (code_plain, code_hash)
Secret(id) == IF id = 1 THEN Rep("1", CodeLen) ELSE Rep("2", CodeLen)

\* codes a client may present: the two secrets, a wrong code, a short one,
\* one that is not numeric, none
CodeInputs == {Secret(1), Secret(2), Rep("9", CodeLen), Rep("1", CodeLen - 1),
               Rep("x", CodeLen), <<>>}

isdigit(code) == code # <<>> /\ \A i \in 1..Len(code) : code[i] \in Digits

\* _verify_password(code, c.code_hash) / verify_password(code, row.code_hash)
verify_password(code, id) == code = Secret(id)

\* no request has been answered yet
NoReply ==
    [req |-> [op |-> "", code |-> <<>>, input_kind |-> "", order_id |-> <<>>,
              tracking_no |-> <<>>],
     status |-> 0, detail |-> "", body |-> <<>>]

NewClientAuth(active) ==
    [is_active |-> active, fail_count |-> 0, locked_until |-> NoTime, last_used |-> NoTime]

VIdle == [pc |-> "idle", code |-> <<>>, rows |-> <<>>, after5 |-> {}]

\* select(ClientAuth).where(ClientAuth.is_active == True): the objects loaded
ActiveRows == [id \in {i \in CodeIds : client_auth[i].is_active} |-> client_auth[id]]

\* is_locked(c), with utcnow() = t
is_locked(c, t) == c.locked_until # NoTime /\ t < c.locked_until

\* the loaded rows the first loop of verify_code accepts code for, at time t
AppMatches(rows, code, t) ==
    {id \in DOMAIN rows : ~is_locked(rows[id], t) /\ verify_password(code, id)}

\* the loaded rows the loop of _verify_code accepts code for
ServerMatches(rows, code) == {id \in DOMAIN rows : verify_password(code, id)}

First(S) == CHOOSE id \in S : \A other \in S : id <= other

\* c.last_used = utcnow(); c.fail_count = 0; c.locked_until = None
AppAccept(c, t) == [c EXCEPT !.last_used = t, !.fail_count = 0, !.locked_until = NoTime]

\* c.fail_count = (c.fail_count or 0) + 1; if c.fail_count >= 5: c.locked_until = ...
AppReject(c, t) ==
    [c EXCEPT !.fail_count = @ + 1,
              !.locked_until = IF c.fail_count + 1 >= LockThreshold
                               THEN t + LockMinutes ELSE @]

\* codes that have had five rejections in a row when a verification starts
AfterFive == {id \in CodeIds : failed_since_ok[id] >= LockThreshold}

\* the observer after a verification that accepted the code of row id
NoteAccepted(id) ==
    /\ failed_since_ok' = [failed_since_ok EXCEPT ![id] = 0]
    /\ fifth_at' = [fifth_at EXCEPT ![id] = NoTime]

\* the observer after a verification that rejected a well-formed code
NoteRejected ==
    /\ failed_since_ok' = [id \in CodeIds |->
                              IF failed_since_ok[id] < LockThreshold
                              THEN failed_since_ok[id] + 1 ELSE failed_since_ok[id]]
    /\ fifth_at' = [id \in CodeIds |->
                       IF failed_since_ok[id] = LockThreshold - 1 THEN now ELSE fifth_at[id]]

\* the observer of locks after a commit that accepted the codes of S: a row that
\* was not locked and now is has been locked at this time
NoteLocks(S) ==
    locked_at' = [id \in CodeIds |->
                     IF id \in S THEN NoTime
                     ELSE IF ~is_locked(client_auth[id], now) /\ is_locked(client_auth'[id], now)
                          THEN now ELSE locked_at[id]]

\* main.py line 371 and the SELECT of line 372
verify_code_select(v) ==
    /\ deployment = "app"
    /\ vreq[v].pc = "idle"
    /\ \A id \in CodeIds : client_auth[id].fail_count < MaxFail
    /\ \E code \in CodeInputs :
          IF code = <<>> \/ ~isdigit(code) \/ Len(code) # CodeLen
          THEN \* return None
               UNCHANGED vreq
          ELSE vreq' = [vreq EXCEPT ![v] = [pc |-> "loaded", code |-> code,
                                            rows |-> ActiveRows, after5 |-> AfterFive]]
    /\ UNCHANGED <<deployment, now, reportvars, outvars, filevars, client_auth,
                   failed_since_ok, fifth_at, locked_at>>

\* main.py lines 373-380: the two loops and db.commit()
verify_code_commit(v) ==
    /\ deployment = "app"
    /\ vreq[v].pc = "loaded"
    /\ LET rows == vreq[v].rows
           m == AppMatches(rows, vreq[v].code, now)
       IN  IF m # {}
           THEN /\ client_auth' =
                      [client_auth EXCEPT ![First(m)] =
                          FlushUpdate(rows[First(m)], AppAccept(rows[First(m)], now), @)]
                /\ NoteAccepted(First(m))
                /\ NoteLocks({First(m)})
           ELSE /\ client_auth' =
                      [id \in CodeIds |->
                          IF id \in DOMAIN rows
                          THEN FlushUpdate(rows[id], AppReject(rows[id], now), client_auth[id])
                          ELSE client_auth[id]]
                /\ NoteRejected
                /\ NoteLocks({})
    /\ vreq' = [vreq EXCEPT ![v] = VIdle]
    /\ UNCHANGED <<deployment, now, reportvars, outvars, filevars>>

\* routes_client_api.py lines 26-28: length check and query of the active rows
_verify_code_query(v) ==
    /\ deployment = "server"
    /\ vreq[v].pc = "idle"
    /\ \E code \in CodeInputs :
          IF code = <<>> \/ Len(code) # CodeLen
          THEN \* 401 invalid code
               UNCHANGED vreq
          ELSE vreq' = [vreq EXCEPT ![v] = [pc |-> "loaded", code |-> code,
                                            rows |-> ActiveRows, after5 |-> AfterFive]]
    /\ UNCHANGED <<deployment, now, reportvars, outvars, filevars, client_auth,
                   failed_since_ok, fifth_at, locked_at>>

\* routes_client_api.py lines 29-34: the loop, db.commit() on a match, 401 otherwise
_verify_code_commit(v) ==
    /\ deployment = "server"
    /\ vreq[v].pc = "loaded"
    /\ LET rows == vreq[v].rows
           m == ServerMatches(rows, vreq[v].code)
       IN  IF m # {}
           THEN /\ client_auth' =
                      [client_auth EXCEPT ![First(m)] =
                          FlushUpdate(rows[First(m)],
                                      [rows[First(m)] EXCEPT !.last_used = now], @)]
                /\ NoteAccepted(First(m))
                /\ NoteLocks({First(m)})
           ELSE /\ UNCHANGED client_auth
                /\ NoteRejected
                /\ NoteLocks({})
    /\ vreq' = [vreq EXCEPT ![v] = VIdle]
    /\ UNCHANGED <<deployment, now, reportvars, outvars, filevars>>

\* a minute passes
Tick ==
    /\ now < AuthHorizon
    /\ now' = now + 1
    /\ UNCHANGED <<deployment, reportvars, authvars, outvars, filevars>>

----------------------------------------------------------------------------
(* Initial state and specifications *)

\* the tracking numbers the PDF import may have stored before any report
ImportedKeys == {<<"A">>}

\* a path that names no file
NoFile == -1

\* a file of the data directory: whether the path exists and the chunks it holds
Absent == [exists |-> FALSE, data |-> <<>>]

\* hashlib.sha256 of a file's content: the digest stands for the content
sha256(data) == [sha256 |-> data]

\* no file at the sidecar's path
NoSidecar == [exists |-> FALSE, sha |-> sha256(<<>>)]

WIdle == [pc |-> "idle", v |-> 0, off |-> 0]
BIdle == [pc |-> "idle", id |-> 0, ino |-> NoFile, off |-> 0]

\* a data directory in which nothing has been published, nobody publishing
FileInit ==
    /\ mapping_file = Absent
    /\ mapping_version = 0
    /\ writer = [p \in Procs |-> WIdle]
    /\ inodes = <<>>
    /\ zip_file = NoFile
    /\ zip_tmp = NoFile
    /\ builder = [p \in Procs |-> BIdle]
    /\ sidecar = NoSidecar

\* the access-code table the administrator set up: code 1 in use, code 2
\* disabled; nobody is verifying
AuthInit ==
    /\ client_auth = [id \in CodeIds |-> NewClientAuth(id = 1)]
    /\ vreq = [v \in Verifiers |-> VIdle]
    /\ failed_since_ok = [id \in CodeIds |-> 0]
    /\ fifth_at = [id \in CodeIds |-> NoTime]
    /\ locked_at = [id \in CodeIds |-> NoTime]
    /\ reply = NoReply

\* the tables of the print flow holding the rows of K, no report in flight
ReportInit(K) ==
    /\ tracking_file = [k \in K |-> NewRow]
    /\ print_events = <<>>
    /\ next_id = 1
    /\ req = [p \in Procs |-> Idle]
    /\ loop = 0
    /\ acked = [k \in Keys |-> [success |-> 0, other |-> 0]]

\* "server": the migration creates empty tables and only print_report inserts
\* tracking_file rows.  "app": rows also come from the PDF import, with the
\* column defaults, before any report.
Init ==
    /\ deployment \in {"app", "server"}
    /\ now = 0
    /\ \E K \in SUBSET ImportedKeys : (deployment = "app" \/ K = {}) /\ ReportInit(K)
    /\ AuthInit
    /\ FileInit

\* Reports with well-formed bodies, handled concurrently
Next ==
    \/ \E p \in Procs : print_report_read(p, ValidTracking, ValidResults)
    \/ \E p \in Procs : print_report_commit(p)
    \/ \E p \in Procs : print_report_abort(p)
    \/ \E p \in Procs : api_print_report(p, ValidTracking, ValidResults)
    \/ \E p \in Procs : _update_tracking_aggregate_select(p)
    \/ \E p \in Procs : _update_tracking_aggregate_write(p)
    \/ \E p \in Procs : api_print_report_abort(p)

Spec == Init /\ [][Next]_vars

\* Reports with any body, handled one after another and never interrupted
NextSeq ==
    \/ \E p \in Procs : AllIdle /\ print_report_read(p, TrackingInputs, ResultInputs)
    \/ \E p \in Procs : print_report_commit(p)
    \/ \E p \in Procs : AllIdle /\ api_print_report(p, TrackingInputs, ResultInputs)
    \/ \E p \in Procs : _update_tracking_aggregate_select(p)
    \/ \E p \in Procs : _update_tracking_aggregate_write(p)

SpecSeq == Init /\ [][NextSeq]_vars

\* Verifications of access codes, handled concurrently, while time passes
InitAuth ==
    /\ deployment \in {"app", "server"}
    /\ now = 0
    /\ ReportInit({})
    /\ AuthInit
    /\ FileInit

NextAuth ==
    \/ \E v \in Verifiers : verify_code_select(v)
    \/ \E v \in Verifiers : verify_code_commit(v)
    \/ \E v \in Verifiers : _verify_code_query(v)
    \/ \E v \in Verifiers : _verify_code_commit(v)
    \/ Tick

SpecAuth == InitAuth /\ [][NextAuth]_vars

----------------------------------------------------------------------------
(* Properties of the print-report flow *)

\* the aggregate of tn: its row, or the column defaults while there is none
AggOf(tf, tn) == IF tn \in DOMAIN tf THEN tf[tn] ELSE NewRow

\* the tracking numbers a row can be keyed by
TrackingKeys == Keys \ {<<>>}

EventsOf(tn) == {i \in 1..Len(print_events) : print_events[i].tracking_no = tn}

Rank(status) == CASE status = "not_printed" -> 0
                  [] status = "printed" -> 1
                  [] status = "reprinted" -> 2

\* C1: when all the reports sent concurrently for a tracking number have been
\* answered and all of them were successes, print_count equals the number of
\* answered reports: no increment is lost.
C1_NoLostIncrement ==
    AllIdle =>
        \A tn \in TrackingKeys :
            acked[tn].other = 0 =>
                AggOf(tracking_file, tn).print_count = acked[tn].success

\* C2: after N >= 1 successful reports for a tracking number, handled one after
\* another with no other report for it, print_count = N, print_status is
\* printed exactly when N = 1 and reprinted exactly when N >= 2.
C2_SequentialCount ==
    AllIdle =>
        \A tn \in TrackingKeys :
            LET n == acked[tn].success
                row == AggOf(tracking_file, tn)
            IN  (acked[tn].other = 0 /\ n >= 1) =>
                    /\ row.print_count = n
                    /\ (row.print_status = "printed") <=> (n = 1)
                    /\ (row.print_status = "reprinted") <=> (n >= 2)

\* one tracking number reported once and another reported twice, successes only
C2_Witness ==
    /\ AllIdle
    /\ \E t1, t2 \in TrackingKeys :
          /\ acked[t1] = [success |-> 1, other |-> 0]
          /\ AggOf(tracking_file, t1).print_status = "printed"
          /\ acked[t2] = [success |-> 2, other |-> 0]
          /\ AggOf(tracking_file, t2).print_status = "reprinted"

\* C3: no step of a report whose result is "fail" changes print_count,
\* print_status, first_print_time, last_print_time or last_print_client_name
\* of the aggregate of its tracking number.
C3_FailLeavesAggregate ==
    [][\A p \in Procs :
          (req[p].result = "fail" /\ req'[p] # req[p]) =>
              AggOf(tracking_file', req[p].tracking_no)
                  = AggOf(tracking_file, req[p].tracking_no)]_vars

C5_FirstPrintTimeFixed ==
    [][\A tn \in DOMAIN tracking_file :
          tracking_file[tn].first_print_time # NoTime =>
              /\ tn \in DOMAIN tracking_file'
              /\ tracking_file'[tn].first_print_time
                     = tracking_file[tn].first_print_time]_vars

\* a row printed again after its first print
C5_Witness ==
    \E tn \in DOMAIN tracking_file :
        /\ tracking_file[tn].first_print_time # NoTime
        /\ tracking_file[tn].last_print_time > tracking_file[tn].first_print_time

\* C6: print_status only moves forward along not_printed, printed, reprinted.
C6_StatusMonotone ==
    [][\A tn \in DOMAIN tracking_file :
          /\ tn \in DOMAIN tracking_file'
          /\ Rank(tracking_file'[tn].print_status)
                 >= Rank(tracking_file[tn].print_status)]_vars

\* a row that went through all three statuses
C6_Witness ==
    \E tn \in DOMAIN tracking_file :
        /\ tracking_file[tn].print_status = "reprinted"
        /\ acked[tn].success >= 2

\* C7: a report is all or nothing: once no report is in flight, the ledger
\* holds exactly the events of the reports that were carried out to the end.
C7_AllOrNothing ==
    AllIdle =>
        \A tn \in Keys :
            Cardinality(EventsOf(tn)) = acked[tn].success + acked[tn].other

\* C8: a report whose tracking_no is empty after trimming, or whose result is
\* not one of success, fail, success_reprint, persists nothing.
C8_RejectedBeforePersist ==
    /\ \A i \in 1..Len(print_events) :
          /\ _norm(print_events[i].tracking_no) # <<>>
          /\ print_events[i].result \in ValidResults
    /\ \A tn \in DOMAIN tracking_file : _norm(tn) # <<>>

----------------------------------------------------------------------------
(* Properties of access-code verification *)

\* the step in which verifier v finishes its verification
Finishes(v) == vreq[v].pc = "loaded" /\ vreq'[v].pc = "idle"

\* the verification v is about to finish accepts the code of row c
Accepts(v, c) ==
    c \in (IF deployment = "app"
           THEN AppMatches(vreq[v].rows, vreq[v].code, now)
           ELSE ServerMatches(vreq[v].rows, vreq[v].code))

\* C9: a verification that starts after five rejections in a row with no
\* success of code c in between, and presents the secret of c before five
\* minutes have passed since the fifth rejection, is rejected.
C9_LockedRejectsSecret ==
    [][\A v \in Verifiers, c \in CodeIds :
          (/\ Finishes(v)
           /\ vreq[v].code = Secret(c)
           /\ client_auth[c].is_active
           /\ c \in vreq[v].after5
           /\ failed_since_ok[c] >= LockThreshold
           /\ now < fifth_at[c] + LockMinutes)
          => ~Accepts(v, c)]_vars

\* C10: every verification that accepts the code of row c leaves the row with
\* fail_count = 0 and locked_until cleared.
C10_SuccessResets ==
    [][\A v \in Verifiers, c \in CodeIds :
          (Finishes(v) /\ Accepts(v, c)) =>
              /\ client_auth'[c].fail_count = 0
              /\ client_auth'[c].locked_until = NoTime]_vars

\* C11: a lock expires after the cooldown: when the row of an active code was
\* locked at time t, a verification that presents its secret and is decided at
\* a time >= t + 5 minutes accepts it, whatever was verified in between.
C11_LockExpires ==
    [][\A v \in Verifiers, c \in CodeIds :
          (/\ Finishes(v)
           /\ vreq[v].code = Secret(c)
           /\ c \in DOMAIN vreq[v].rows
           /\ client_auth[c].is_active
           /\ locked_at[c] # NoTime
           /\ now >= locked_at[c] + LockMinutes)
          => Accepts(v, c)]_vars

----------------------------------------------------------------------------
(* The client API served one request at a time: each handler from its first  *)
(* statement to its response.  reply keeps the request and what was answered. *)

OrderInputs == {<<>>, <<"O">>}
KindInputs == {"order", "tracking"}
ApiTracking == {<<>>, <<"A">>}
ApiResults == {"success", "fail"}
ApiCodes == {Secret(1), Secret(2), Rep("9", CodeLen), Rep("1", CodeLen - 1)}

\* table order_mapping as the last import of orders left it
OrderMappingRows == {[order_id |-> <<"O">>, tracking_no |-> <<"A">>]}

\* PrintEvent(...) with the columns the check and the device list read
ApiEvent(id, code, order_id, tn, result, host, mac_list, t) ==
    [id |-> id, tracking_no |-> tn, result |-> result, host |-> host,
     access_code |-> code, order_id |-> order_id, mac_list |-> mac_list, created_at |-> t]

Request(op, code, kind, order_id, tn) ==
    [op |-> op, code |-> code, input_kind |-> kind, order_id |-> order_id, tracking_no |-> tn]

\* verify_code from line 371 to its return: the rows that accept code
AppVerify(code) ==
    IF code = <<>> \/ ~isdigit(code) \/ Len(code) # CodeLen THEN {}
    ELSE AppMatches(ActiveRows, code, now)

\* table client_auth after verify_code(db, code)
AppAuthAfter(code) ==
    IF code = <<>> \/ ~isdigit(code) \/ Len(code) # CodeLen THEN client_auth
    ELSE LET m == AppMatches(ActiveRows, code, now) IN
         IF m # {}
         THEN [client_auth EXCEPT ![First(m)] = AppAccept(@, now)]
         ELSE [id \in CodeIds |-> IF client_auth[id].is_active
                                  THEN AppReject(client_auth[id], now)
                                  ELSE client_auth[id]]

\* _verify_code from line 26 to its return or raise: the rows that accept code
ServerVerify(code) ==
    IF code = <<>> \/ Len(code) # CodeLen THEN {} ELSE ServerMatches(ActiveRows, code)

\* table client_auth after _verify_code(db, code)
ServerAuthAfter(code) ==
    IF ServerVerify(code) = {} THEN client_auth
    ELSE [client_auth EXCEPT ![First(ServerVerify(code))].last_used = now]

\* variant: the rejection tells a locked code from a wrong one
AppAuthReply_TellsLocked(rq, accepted) ==
    IF accepted # {} THEN [req |-> rq, status |-> 200, detail |-> "", body |-> <<>>]
    ELSE [req |-> rq, status |-> 403,
          detail |-> IF \E id \in CodeIds : /\ verify_password(rq.code, id)
                                            /\ is_locked(client_auth[id], now)
                     THEN "locked" ELSE "invalid code",
          body |-> <<>>]

\* c = verify_code(db, code); if not c: raise HTTPException(status_code=403, detail="invalid code")
AppAuthReply(rq, accepted) ==
    IF accepted # {} THEN [req |-> rq, status |-> 200, detail |-> "", body |-> <<>>]
    ELSE [req |-> rq, status |-> 403, detail |-> "invalid code", body |-> <<>>]

\* raise HTTPException(status_code=401, detail="invalid code")
ServerAuthReply(rq, accepted) ==
    IF accepted # {} THEN [req |-> rq, status |-> 200, detail |-> "", body |-> <<>>]
    ELSE [req |-> rq, status |-> 401, detail |-> "invalid code", body |-> <<>>]

\* db.query(PrintEvent).filter(order_id == ..., result.in_([...])).first() is not None
DupOrder(order_id) ==
    \E i \in 1..Len(print_events) :
        print_events[i].order_id = order_id /\ print_events[i].result \in SuccessResults

DupTracking(tn) ==
    \E i \in 1..Len(print_events) :
        print_events[i].tracking_no = tn /\ print_events[i].result \in SuccessResults

\* print_ext.py lines 194-202; None is "none"
AppDuplicateKind(input_kind, dup_order, dup_tracking) ==
    IF input_kind = "order" /\ dup_order THEN "order"
    ELSE IF input_kind = "tracking" /\ dup_tracking THEN "tracking"
    ELSE IF dup_tracking THEN "tracking"
    ELSE IF dup_order THEN "order"
    ELSE "none"

\* print_ext.py lines 180-215
AppCheckBody(input_kind, order_id, tracking_no) ==
    LET o == _norm(order_id)
        tn == _norm(tracking_no)
        dup_order == o # <<>> /\ DupOrder(o)
        dup_tracking == tn # <<>> /\ DupTracking(tn)
        total_cnt == IF tn # <<>> /\ HasRow(tn) THEN tracking_file[tn].print_count ELSE 0
    IN  [allow |-> TRUE,
         status |-> IF total_cnt > 0 THEN "reprinted" ELSE "not_printed",
         duplicate_kind |-> AppDuplicateKind(input_kind, dup_order, dup_tracking),
         print_count |-> total_cnt]

\* routes_client_api.py lines 92-107
ServerCheckBody(input_kind, order_id, tracking_no) ==
    LET mapped == {row \in OrderMappingRows : row.order_id = order_id}
        resolved == IF input_kind = "order" /\ order_id # <<>> /\ tracking_no = <<>>
                       /\ mapped # {}
                    THEN (CHOOSE row \in mapped : TRUE).tracking_no
                    ELSE tracking_no
        found == resolved # <<>> /\ HasRow(resolved)
    IN  [allow |-> TRUE,
         status |-> IF found THEN tracking_file[resolved].print_status ELSE "not_printed",
         duplicate_kind |-> "none",
         print_count |-> IF found THEN tracking_file[resolved].print_count ELSE 0]

\* GET /api/v1/print/check of print_ext.py
api_print_check(codes, kinds, orders, tns) ==
    /\ deployment = "app"
    /\ \A id \in CodeIds : client_auth[id].fail_count < MaxFail
    /\ \E code \in codes, kind \in kinds, order_id \in orders, tn \in tns :
          LET rq == Request("check", code, kind, order_id, tn)
              auth == AppAuthReply(rq, AppVerify(code))
          IN  /\ client_auth' = AppAuthAfter(code)
              /\ reply' = IF auth.status # 200 THEN auth
                          ELSE [auth EXCEPT !.body = AppCheckBody(kind, order_id, tn)]
    /\ UNCHANGED <<deployment, now, reportvars, vreq, failed_since_ok, fifth_at, locked_at, filevars>>

\* GET /print/check of routes_client_api.py
print_check(codes, kinds, orders, tns) ==
    /\ deployment = "server"
    /\ \E code \in codes, kind \in kinds, order_id \in orders, tn \in tns :
          LET rq == Request("check", code, kind, order_id, tn)
              auth == ServerAuthReply(rq, ServerVerify(code))
          IN  /\ client_auth' = ServerAuthAfter(code)
              /\ reply' = IF auth.status # 200 THEN auth
                          ELSE [auth EXCEPT !.body = ServerCheckBody(kind, order_id, tn)]
    /\ UNCHANGED <<deployment, now, reportvars, vreq, failed_since_ok, fifth_at, locked_at, filevars>>

\* POST /api/v1/print/report of print_ext.py, lines 219-272
api_print_report_served(codes, orders, tns, results, hosts, macs) ==
    /\ deployment = "app"
    /\ Len(print_events) < MaxReports
    /\ \A id \in CodeIds : client_auth[id].fail_count < MaxFail
    /\ \E code \in codes, order_id \in orders, tn0 \in tns, result \in results,
          host \in hosts, mac_list \in macs :
          LET rq == Request("report", code, "", order_id, tn0)
              auth == AppAuthReply(rq, AppVerify(code))
              tn == _norm(tn0)
              tf == IF tn = <<>> THEN tracking_file
                    ELSE AggregateWrite(tracking_file, tn, HasRow(tn),
                                        IF HasRow(tn) THEN tracking_file[tn].print_count ELSE 0,
                                        host, is_success(result), now)
          IN  /\ client_auth' = AppAuthAfter(code)
              /\ IF auth.status # 200
                 THEN /\ reply' = auth
                      /\ UNCHANGED <<tracking_file, print_events, next_id>>
                 ELSE /\ print_events' =
                            Append(print_events,
                                   ApiEvent(next_id, code, _norm(order_id), tn, result,
                                            host, mac_list, now))
                      /\ next_id' = next_id + 1
                      /\ tracking_file' = tf
                      /\ reply' = [auth EXCEPT !.body =
                                      [print_status |-> IF tn \in DOMAIN tf
                                                        THEN tf[tn].print_status ELSE "not_printed",
                                       print_count |-> IF tn \in DOMAIN tf
                                                       THEN tf[tn].print_count ELSE 0]]
    /\ UNCHANGED <<deployment, now, req, loop, acked, vreq, failed_since_ok, fifth_at, locked_at, filevars>>

\* POST /print/report of routes_client_api.py, lines 109-150
print_report_served(codes, orders, tns, results, hosts, macs) ==
    /\ deployment = "server"
    /\ Len(print_events) < MaxReports
    /\ \E code \in codes, order_id \in orders, tn \in tns, result \in results,
          host \in hosts, mac_list \in macs :
          LET rq == Request("report", code, "", order_id, tn)
              auth == ServerAuthReply(rq, ServerVerify(code))
              new == ServerApply(AggOf(tracking_file, tn), ~HasRow(tn), host, now)
          IN  /\ client_auth' = ServerAuthAfter(code)
              /\ IF auth.status # 200
                 THEN /\ reply' = auth
                      /\ UNCHANGED <<tracking_file, print_events, next_id>>
                 ELSE IF tn = <<>>
                 THEN /\ reply' = [auth EXCEPT !.status = 400, !.detail = "tracking_no required"]
                      /\ UNCHANGED <<tracking_file, print_events, next_id>>
                 ELSE /\ print_events' =
                            Append(print_events,
                                   ApiEvent(next_id, code, order_id, tn, result,
                                            host, mac_list, now))
                      /\ next_id' = next_id + 1
                      /\ tracking_file' = PutRow(tn, new)
                      /\ reply' = [auth EXCEPT !.body =
                                      [print_status |-> new.print_status,
                                       print_count |-> new.print_count]]
    /\ UNCHANGED <<deployment, now, req, loop, acked, vreq, failed_since_ok, fifth_at, locked_at, filevars>>

NextApi ==
    \/ api_print_check(ApiCodes, KindInputs, OrderInputs, ApiTracking)
    \/ print_check(ApiCodes, KindInputs, OrderInputs, ApiTracking)
    \/ api_print_report_served(ApiCodes, OrderInputs, ApiTracking, ApiResults, {"h1"}, {<<>>})
    \/ print_report_served(ApiCodes, OrderInputs, ApiTracking, ApiResults, {"h1"}, {<<>>})

SpecApi == Init /\ [][NextApi]_vars

\* Checks only: the access-code table is the only table that changes
NextCheck ==
    \/ api_print_check(ApiCodes, KindInputs, OrderInputs, ApiTracking)
    \/ print_check(ApiCodes, KindInputs, OrderInputs, ApiTracking)

SpecCheck == Init /\ [][NextCheck]_vars

----------------------------------------------------------------------------
(* The device list of an access code, read from the ledger *)

\* the minutes over which the ledger of the device list is written
ClientHorizon == 2

ClientCodes == {Secret(1), Secret(2)}
HostInputs == {"h1", "h2"}
MacInputs == {<<>>, <<"m">>}

\* .order_by(PrintEvent.created_at.desc()).all(): every order of the ledger rows
\* in idx by created_at, newest first; rows of equal created_at come in any order
DescOrders(idx) ==
    {f \in [1..Cardinality(idx) -> idx] :
        /\ \A i, j \in 1..Cardinality(idx) : i # j => f[i] # f[j]
        /\ \A i, j \in 1..Cardinality(idx) :
              i < j => print_events[f[i]].created_at >= print_events[f[j]].created_at}

\* the output entry of an event
DeviceOf(e) == [host |-> e.host, mac_list |-> e.mac_list, last_seen |-> e.created_at]

\* the entries appended while iterating rows from position i: the rows in keep
RECURSIVE Collect(_, _, _)
Collect(rows, keep, i) ==
    IF i > Len(rows) THEN <<>>
    ELSE IF i \in keep THEN <<DeviceOf(print_events[rows[i]])>> \o Collect(rows, keep, i + 1)
    ELSE Collect(rows, keep, i + 1)

\* key = (r.host or "", json.dumps(macs)); if key in seen: continue
AppDevices(rows) ==
    LET key(i) == <<print_events[rows[i]].host, print_events[rows[i]].mac_list>>
        keep == {i \in 1..Len(rows) : \A j \in 1..(i - 1) : key(j) # key(i)}
    IN  Collect(rows, keep, 1)

\* key = evt.host or "unknown"; if key not in devices: devices[key] = {...}
ServerDevices(rows) ==
    LET key(i) == IF print_events[rows[i]].host = "" THEN "unknown"
                  ELSE print_events[rows[i]].host
        keep == {i \in 1..Len(rows) : \A j \in 1..(i - 1) : key(j) # key(i)}
    IN  Collect(rows, keep, 1)

\* GET /api/v1/clients/by-code of print_ext.py: no verification of the code
api_clients_by_code(codes) ==
    /\ deployment = "app"
    /\ \E access_code \in codes :
          LET idx == {i \in 1..Len(print_events) : print_events[i].access_code = access_code}
          IN  \E rows \in DescOrders(idx) :
                 reply' = [req |-> Request("clients", access_code, "", <<>>, <<>>),
                           status |-> 200, detail |-> "",
                           body |-> [devices |-> AppDevices(rows)]]
    /\ UNCHANGED <<deployment, now, reportvars, authvars, filevars>>

\* GET /clients/by-code of routes_client_api.py
clients_by_code(codes) ==
    /\ deployment = "server"
    /\ \E access_code \in codes :
          LET rq == Request("clients", access_code, "", <<>>, <<>>)
              auth == ServerAuthReply(rq, ServerVerify(access_code))
          IN  /\ client_auth' = ServerAuthAfter(access_code)
              /\ IF auth.status # 200 THEN reply' = auth
                 ELSE \E rows \in DescOrders(1..Len(print_events)) :
                         reply' = [auth EXCEPT !.body = [devices |-> ServerDevices(rows)]]
    /\ UNCHANGED <<deployment, now, reportvars, vreq, failed_since_ok, fifth_at, locked_at, filevars>>

\* both access codes in use
InitClients ==
    /\ deployment \in {"app", "server"}
    /\ now = 0
    /\ ReportInit({})
    /\ client_auth = [id \in CodeIds |-> NewClientAuth(TRUE)]
    /\ vreq = [v \in Verifiers |-> VIdle]
    /\ failed_since_ok = [id \in CodeIds |-> 0]
    /\ fifth_at = [id \in CodeIds |-> NoTime]
    /\ locked_at = [id \in CodeIds |-> NoTime]
    /\ reply = NoReply
    /\ FileInit

NextClients ==
    \/ api_print_report_served(ClientCodes, {<<>>}, {<<"A">>}, {"success"}, HostInputs, MacInputs)
    \/ print_report_served(ClientCodes, {<<>>}, {<<"A">>}, {"success"}, HostInputs, MacInputs)
    \/ api_clients_by_code(ClientCodes \cup {Rep("9", CodeLen)})
    \/ clients_by_code(ClientCodes \cup {Rep("9", CodeLen)})
    \/ (now < ClientHorizon /\ Tick)

SpecClients == InitClients /\ [][NextClients]_vars

----------------------------------------------------------------------------
(* Files published in the data directory: mapping.json and the daily archive. *)
(* A file is the sequence of the chunks written to it; a write through an     *)
(* open file lands at the offset of that opener.                               *)

NumChunks == 2
MaxPublish == 2
MaxBuilds == 2

\* the chunk a position holds when nothing was written there
Hole == [v |-> -1, k |-> 0]

\* f.write at position pos of the chunk c
RECURSIVE Holes(_)
Holes(n) == IF n <= 0 THEN <<>> ELSE <<Hole>> \o Holes(n - 1)

WriteAt(data, pos, c) ==
    IF pos <= Len(data) THEN [data EXCEPT ![pos] = c]
    ELSE data \o Holes(pos - Len(data) - 1) \o <<c>>

\* everything one publication v, or one build of thread v, writes
Complete(v) == [k \in 1..NumChunks |-> [v |-> v, k |-> k]]

\* the previous day's run left this archive in place
PrevArchive == 0

\* set_mapping_version(db); data = _build_mapping_payload(db); open(fp, "w")
write_mapping_json_open(p) ==
    /\ deployment = "app"
    /\ writer[p].pc = "idle"
    /\ mapping_version < MaxPublish
    /\ mapping_version' = mapping_version + 1
    /\ writer' = [writer EXCEPT ![p] = [pc |-> "dump", v |-> mapping_version + 1, off |-> 0]]
    /\ mapping_file' = [exists |-> TRUE, data |-> <<>>]
    /\ UNCHANGED <<deployment, now, reportvars, authvars, outvars, inodes, zip_file,
                   zip_tmp, builder, sidecar>>

\* json.dump(data, f, ...): the buffer is flushed to the file
write_mapping_json_dump(p) ==
    /\ writer[p].pc = "dump"
    /\ writer[p].off < NumChunks
    /\ LET w == writer[p] IN
       /\ mapping_file' = [mapping_file EXCEPT
                             !.data = WriteAt(@, w.off + 1, [v |-> w.v, k |-> w.off + 1])]
       /\ writer' = [writer EXCEPT ![p].off = w.off + 1]
    /\ UNCHANGED <<deployment, now, reportvars, authvars, outvars, mapping_version, inodes,
                   zip_file, zip_tmp, builder, sidecar>>

\* leaving the with block
write_mapping_json_close(p) ==
    /\ writer[p].pc = "dump"
    /\ writer[p].off = NumChunks
    /\ writer' = [writer EXCEPT ![p] = WIdle]
    /\ UNCHANGED <<deployment, now, reportvars, authvars, outvars, mapping_file,
                   mapping_version, inodes, zip_file, zip_tmp, builder, sidecar>>

\* tmp_zip = fp_zip + ".tmp"; zipfile.ZipFile(tmp_zip, "w"): creates the file
\* or truncates the one at that path
build_daily_pdf_zip_open(p) ==
    /\ deployment = "app"
    /\ builder[p].pc = "idle"
    /\ IF zip_tmp = NoFile
       THEN /\ Len(inodes) < MaxBuilds + 1
            /\ inodes' = Append(inodes, <<>>)
            /\ zip_tmp' = Len(inodes) + 1
            /\ builder' = [builder EXCEPT ![p] =
                              [pc |-> "write", id |-> p, ino |-> Len(inodes) + 1, off |-> 0]]
       ELSE /\ inodes' = [inodes EXCEPT ![zip_tmp] = <<>>]
            /\ zip_tmp' = zip_tmp
            /\ builder' = [builder EXCEPT ![p] =
                              [pc |-> "write", id |-> p, ino |-> zip_tmp, off |-> 0]]
    /\ UNCHANGED <<deployment, now, reportvars, authvars, outvars, mapping_file,
                   mapping_version, writer, zip_file, sidecar>>

\* z.write(f.file_path, arcname), and the directory written when z is closed
build_daily_pdf_zip_write(p) ==
    /\ builder[p].pc = "write"
    /\ builder[p].off < NumChunks
    /\ LET b == builder[p] IN
       /\ inodes' = [inodes EXCEPT ![b.ino] = WriteAt(@, b.off + 1, [v |-> b.id, k |-> b.off + 1])]
       /\ builder' = [builder EXCEPT ![p].off = b.off + 1]
    /\ UNCHANGED <<deployment, now, reportvars, authvars, outvars, mapping_file,
                   mapping_version, writer, zip_file, zip_tmp, sidecar>>

\* os.replace(tmp_zip, fp_zip): the file at tmp_zip takes the place of fp_zip
Replaced == zip_file' = zip_tmp /\ zip_tmp' = NoFile

\* finally: if os.path.exists(tmp_zip): os.remove(tmp_zip)
Finally == zip_tmp' = NoFile /\ UNCHANGED zip_file

\* an exception out of the with block (the disk is full, a file vanished)
build_daily_pdf_zip_raise(p) ==
    /\ builder[p].pc = "write"
    /\ Finally
    /\ builder' = [builder EXCEPT ![p] = BIdle]
    /\ UNCHANGED <<deployment, now, reportvars, authvars, outvars, mapping_file,
                   mapping_version, writer, inodes, sidecar>>

\* lines 319-326: the first os.replace, or the one of the else branch; over an
\* existing archive it either succeeds or raises (the target is in use, or
\* tmp_zip is gone)
build_daily_pdf_zip_replace(p) ==
    /\ builder[p].pc = "write"
    /\ builder[p].off = NumChunks
    /\ IF zip_tmp # NoFile
       THEN \/ /\ Replaced
               /\ builder' = [builder EXCEPT ![p].pc = "sha"]
            \/ /\ zip_file # NoFile
               /\ builder' = [builder EXCEPT ![p].pc = "remove"]
               /\ UNCHANGED <<zip_file, zip_tmp>>
       ELSE IF zip_file # NoFile
            THEN /\ builder' = [builder EXCEPT ![p].pc = "remove"]
                 /\ UNCHANGED <<zip_file, zip_tmp>>
            ELSE /\ Finally
                 /\ builder' = [builder EXCEPT ![p] = BIdle]
    /\ UNCHANGED <<deployment, now, reportvars, authvars, outvars, mapping_file,
                   mapping_version, writer, inodes, sidecar>>

\* except Exception: try: os.remove(fp_zip)
build_daily_pdf_zip_remove(p) ==
    /\ builder[p].pc = "remove"
    /\ zip_file' = NoFile
    /\ builder' = [builder EXCEPT ![p].pc = "replace"]
    /\ UNCHANGED <<deployment, now, reportvars, authvars, outvars, mapping_file,
                   mapping_version, writer, inodes, zip_tmp, sidecar>>

\* the second os.replace(tmp_zip, fp_zip); when it raises, the finally block
build_daily_pdf_zip_replace_again(p) ==
    /\ builder[p].pc = "replace"
    /\ IF zip_tmp # NoFile
       THEN Replaced /\ builder' = [builder EXCEPT ![p].pc = "sha"]
       ELSE Finally /\ builder' = [builder EXCEPT ![p] = BIdle]
    /\ UNCHANGED <<deployment, now, reportvars, authvars, outvars, mapping_file,
                   mapping_version, writer, inodes, sidecar>>

\* lines 328-336: the archive at fp_zip is read back and hashed, and
\* _write_sidecar_sha writes the digest; an exception while reading (no file at
\* fp_zip) or while opening the sidecar is swallowed
build_daily_pdf_zip_sha(p) ==
    /\ builder[p].pc = "sha"
    /\ IF zip_file = NoFile
       THEN UNCHANGED sidecar
       ELSE \/ sidecar' = [exists |-> TRUE, sha |-> sha256(inodes[zip_file])]
            \/ UNCHANGED sidecar
    /\ builder' = [builder EXCEPT ![p].pc = "finally"]
    /\ UNCHANGED <<deployment, now, reportvars, authvars, outvars, mapping_file,
                   mapping_version, writer, inodes, zip_file, zip_tmp>>

\* lines 337-340: the finally block after the sidecar was written
build_daily_pdf_zip_finally(p) ==
    /\ builder[p].pc = "finally"
    /\ Finally
    /\ builder' = [builder EXCEPT ![p] = BIdle]
    /\ UNCHANGED <<deployment, now, reportvars, authvars, outvars, mapping_file,
                   mapping_version, writer, inodes, sidecar>>

\* shutil.move(zip_path, archive_path) of the uploaded archive, within RELABEL_DATA
apply_pdf_import ==
    /\ deployment = "server"
    /\ Len(inodes) < MaxBuilds + 1
    /\ inodes' = Append(inodes, Complete(PrevArchive))
    /\ zip_file' = Len(inodes) + 1
    /\ UNCHANGED <<deployment, now, reportvars, authvars, outvars, mapping_file,
                   mapping_version, writer, zip_tmp, builder, sidecar>>

\* the process is killed: every thread stops where it is
Kill ==
    /\ \E p \in Procs : writer[p].pc # "idle" \/ builder[p].pc # "idle"
    /\ writer' = [p \in Procs |-> WIdle]
    /\ builder' = [p \in Procs |-> BIdle]
    /\ UNCHANGED <<deployment, now, reportvars, authvars, outvars, mapping_file,
                   mapping_version, inodes, zip_file, zip_tmp, sidecar>>

\* the data directory with or without the archive an earlier run published
InitFiles ==
    /\ deployment \in {"app", "server"}
    /\ now = 0
    /\ ReportInit({})
    /\ AuthInit
    /\ mapping_file = Absent
    /\ mapping_version = 0
    /\ writer = [p \in Procs |-> WIdle]
    /\ inodes = <<Complete(PrevArchive)>>
    /\ zip_file \in {NoFile, 1}
    /\ zip_tmp = NoFile
    /\ builder = [p \in Procs |-> BIdle]
    /\ sidecar = IF deployment = "app" /\ zip_file # NoFile
                 THEN [exists |-> TRUE, sha |-> sha256(Complete(PrevArchive))]
                 ELSE NoSidecar

NextFiles ==
    \/ \E p \in Procs : write_mapping_json_open(p)
    \/ \E p \in Procs : write_mapping_json_dump(p)
    \/ \E p \in Procs : write_mapping_json_close(p)
    \/ \E p \in Procs : build_daily_pdf_zip_open(p)
    \/ \E p \in Procs : build_daily_pdf_zip_write(p)
    \/ \E p \in Procs : build_daily_pdf_zip_raise(p)
    \/ \E p \in Procs : build_daily_pdf_zip_replace(p)
    \/ \E p \in Procs : build_daily_pdf_zip_remove(p)
    \/ \E p \in Procs : build_daily_pdf_zip_replace_again(p)
    \/ \E p \in Procs : build_daily_pdf_zip_sha(p)
    \/ \E p \in Procs : build_daily_pdf_zip_finally(p)
    \/ apply_pdf_import
    \/ Kill

SpecFiles == InitFiles /\ [][NextFiles]_vars

----------------------------------------------------------------------------
(* The administrator's operations on the tables, next to reports and checks.  *)
(* The steps of these handlers that publish files are the actions above.      *)

\* the rows of tracking_file other than those of K
Without(K) == [k \in DOMAIN tracking_file \ K |-> tracking_file[k]]

\* the rows of tracking_file and a default row for each key of K that has none
WithNew(tf, K) == [k \in DOMAIN tf \cup K |-> IF k \in DOMAIN tf THEN tf[k] ELSE NewRow]

\* variant: the retention cleanup also purges the events of the rows it deletes
cleanup_expired_PurgesEvents ==
    /\ deployment = "app"
    /\ \E olds \in SUBSET DOMAIN tracking_file :
          /\ tracking_file' = Without(olds)
          /\ print_events' = SelectSeq(print_events, LAMBDA e : e.tracking_no \notin olds)
    /\ UNCHANGED <<deployment, now, next_id, req, loop, acked>>
    /\ UNCHANGED <<authvars, outvars, filevars>>

\* main.cleanup_expired: the order mappings and the tracking rows older than the
\* retention are deleted; olds is any set of rows
cleanup_expired ==
    /\ deployment = "app"
    /\ \E olds \in SUBSET DOMAIN tracking_file : tracking_file' = Without(olds)
    /\ UNCHANGED <<deployment, now, print_events, next_id, req, loop, acked>>
    /\ UNCHANGED <<authvars, outvars, filevars>>

\* main.api_apply_pdf_import, lines 700-720: one PDF of the uploaded archive
api_apply_pdf_import(keys) ==
    /\ deployment = "app"
    /\ \E tracking \in keys : tracking_file' = WithNew(tracking_file, {tracking})
    /\ UNCHANGED <<deployment, now, print_events, next_id, req, loop, acked>>
    /\ UNCHANGED <<authvars, outvars, filevars>>

\* main.admin_reconcile, lines 1077-1095: a row for every PDF on disk, no row
\* without its PDF
admin_reconcile(keys) ==
    /\ deployment = "app"
    /\ \E on_disk \in SUBSET keys :
          tracking_file' =
              LET tf == WithNew(tracking_file, on_disk)
              IN  [k \in {d \in DOMAIN tf : d \in on_disk} |-> tf[k]]
    /\ UNCHANGED <<deployment, now, print_events, next_id, req, loop, acked>>
    /\ UNCHANGED <<authvars, outvars, filevars>>

\* main.file_batch_delete_all, lines 917-927: the rows whose tracking_no matches
\* q (all rows without q) and their PDFs are deleted
file_batch_delete_all ==
    /\ deployment = "app"
    /\ \E targets \in SUBSET DOMAIN tracking_file : tracking_file' = Without(targets)
    /\ UNCHANGED <<deployment, now, print_events, next_id, req, loop, acked>>
    /\ UNCHANGED <<authvars, outvars, filevars>>

\* routes_admin_api.batch_delete_all: delete(OrderMapping); no other table
batch_delete_all ==
    /\ deployment = "server"
    /\ UNCHANGED vars

LedgerTracking == {<<"A">>}
LedgerResults == {"success", "fail"}
LedgerCodes == {Secret(1)}

NextLedger ==
    \/ \E p \in Procs : print_report_read(p, LedgerTracking, LedgerResults)
    \/ \E p \in Procs : print_report_commit(p)
    \/ \E p \in Procs : print_report_abort(p)
    \/ \E p \in Procs : api_print_report(p, LedgerTracking, LedgerResults)
    \/ \E p \in Procs : _update_tracking_aggregate_select(p)
    \/ \E p \in Procs : _update_tracking_aggregate_write(p)
    \/ \E p \in Procs : api_print_report_abort(p)
    \/ api_print_check(LedgerCodes, {"tracking"}, {<<>>}, LedgerTracking)
    \/ print_check(LedgerCodes, {"tracking"}, {<<>>}, LedgerTracking)
    \/ cleanup_expired
    \/ api_apply_pdf_import(ImportedKeys)
    \/ admin_reconcile(ImportedKeys)
    \/ batch_delete_all

SpecLedger == Init /\ [][NextLedger]_vars

\* Reports and the administrator's operations other than the retention cleanup
NextAdmin ==
    \/ \E p \in Procs : print_report_read(p, LedgerTracking, LedgerResults)
    \/ \E p \in Procs : print_report_commit(p)
    \/ \E p \in Procs : print_report_abort(p)
    \/ \E p \in Procs : api_print_report(p, LedgerTracking, LedgerResults)
    \/ \E p \in Procs : _update_tracking_aggregate_select(p)
    \/ \E p \in Procs : _update_tracking_aggregate_write(p)
    \/ \E p \in Procs : api_print_report_abort(p)
    \/ api_apply_pdf_import(ImportedKeys)
    \/ admin_reconcile(ImportedKeys)
    \/ file_batch_delete_all
    \/ batch_delete_all

SpecAdmin == Init /\ [][NextAdmin]_vars

----------------------------------------------------------------------------
(* Claims about the client API *)

\* the verification the deployment runs refuses code in the current state
Rejects(code) ==
    IF deployment = "app" THEN AppVerify(code) = {} ELSE ServerVerify(code) = {}

\* C12: a check or a report whose access code fails verification is answered
\* 403 and appends no event and creates or modifies no tracking row.
C12_FailedAuthIs403 ==
    [][Rejects(reply'.req.code)
          => /\ reply'.status = 403
             /\ print_events' = print_events
             /\ tracking_file' = tracking_file]_vars

WellFormedCodes == {c \in ApiCodes : Len(c) = CodeLen /\ isdigit(c)}

\* what the caller sees of a verification of code in the current state
AuthOutcome(code) ==
    LET rq == Request("check", code, "order", <<>>, <<>>)
        r == IF deployment = "app" THEN AppAuthReply(rq, AppVerify(code))
             ELSE ServerAuthReply(rq, ServerVerify(code))
    IN  <<r.status, r.detail>>

\* C13: from one store state, every well-formed code that is refused (wrong,
\* of an inactive code, or the secret of a locked code) gets the same status
\* and detail, and that is also what the last refused request was answered.
C13_UniformRejection ==
    /\ \A c1, c2 \in WellFormedCodes :
          Rejects(c1) /\ Rejects(c2) => AuthOutcome(c1) = AuthOutcome(c2)
    /\ \A c \in WellFormedCodes :
          (/\ Rejects(c)
           /\ reply.req.code \in WellFormedCodes
           /\ reply.status \in {401, 403})
          => AuthOutcome(c) = <<reply.status, reply.detail>>

\* the secret of a locked code has been refused, and a wrong code and the
\* secret of the inactive code would be refused now
C13_Witness ==
    /\ reply.req.code = Secret(1)
    /\ reply.status = 403
    /\ is_locked(client_auth[1], now)
    /\ Rejects(Secret(1)) /\ Rejects(Secret(2)) /\ Rejects(Rep("9", CodeLen))

\* the last request was a check and it was answered 200
CheckAnswered == reply.req.op = "check" /\ reply.status = 200

\* the key the deployment looks the request's field up by
KeyOf(field) == IF deployment = "app" THEN _norm(field) ELSE field

\* C14: a check for a tracking number with a successful event in the ledger
\* answers duplicate_kind tracking; a check whose order id and tracking number
\* have no successful event answers duplicate_kind none.
C14_DuplicateKind ==
    CheckAnswered =>
        LET o == KeyOf(reply.req.order_id)
            tn == KeyOf(reply.req.tracking_no)
            dup_order == o # <<>> /\ DupOrder(o)
            dup_tracking == tn # <<>> /\ DupTracking(tn)
        IN  /\ dup_tracking => reply.body.duplicate_kind = "tracking"
            /\ (~dup_order /\ ~dup_tracking) => reply.body.duplicate_kind = "none"

\* C15: a check given an order id and a tracking number that both have a
\* successful event answers duplicate_kind tracking, whatever input_kind is.
C15_TrackingPrecedence ==
    (/\ CheckAnswered
     /\ KeyOf(reply.req.order_id) # <<>> /\ DupOrder(KeyOf(reply.req.order_id))
     /\ KeyOf(reply.req.tracking_no) # <<>> /\ DupTracking(KeyOf(reply.req.tracking_no))
     /\ reply.req.input_kind \in KindInputs)
    => reply.body.duplicate_kind = "tracking"

\* C16: the status a check answers for a tracking number is the print_status of
\* its aggregate row: not_printed at count 0, printed at 1, reprinted from 2.
C16_CheckStatus ==
    (CheckAnswered /\ KeyOf(reply.req.tracking_no) # <<>>)
    => LET agg == AggOf(tracking_file, KeyOf(reply.req.tracking_no)) IN
       /\ reply.body.status = agg.print_status
       /\ reply.body.status = IF agg.print_count = 0 THEN "not_printed"
                              ELSE IF agg.print_count = 1 THEN "printed"
                              ELSE "reprinted"

\* the events recorded with access code code
EventsWith(code) == {i \in 1..Len(print_events) : print_events[i].access_code = code}

\* C19: the device list answered for an access code has exactly one entry per
\* distinct (host, mac_list) pair among the events recorded with that code, each
\* with the time of the most recent event of its pair, newest entry first.
C19_DevicesByCode ==
    (reply.req.op = "clients" /\ reply.status = 200) =>
        LET E == EventsWith(reply.req.code)
            pairs == {<<print_events[i].host, print_events[i].mac_list>> : i \in E}
            dv == reply.body.devices
        IN  /\ Len(dv) = Cardinality(pairs)
            /\ \A pr \in pairs :
                  \E k \in 1..Len(dv) :
                     /\ dv[k].host = pr[1]
                     /\ dv[k].mac_list = pr[2]
                     /\ \E i \in E : /\ print_events[i].host = pr[1]
                                     /\ print_events[i].mac_list = pr[2]
                                     /\ print_events[i].created_at = dv[k].last_seen
                     /\ \A i \in E : (print_events[i].host = pr[1]
                                      /\ print_events[i].mac_list = pr[2])
                                     => print_events[i].created_at <= dv[k].last_seen
            /\ \A j, k \in 1..Len(dv) : j < k => dv[j].last_seen >= dv[k].last_seen

\* C17: at every instant the visible mapping.json is absent or is the complete
\* output of exactly one publication; never truncated, never a mix of two.
C17_MappingWhole ==
    mapping_file.exists => \E v \in 1..MaxPublish : mapping_file.data = Complete(v)

\* the archive at the visible path is the whole output of one build
ArchiveWhole(ino, files) ==
    ino # NoFile /\ \E v \in Procs \cup {PrevArchive} : files[ino] = Complete(v)

\* C18: whatever step of a build fails or is abandoned, a visible archive stays
\* visible and whole: it is never removed without a whole replacement in place
\* and the visible path never holds a partially written archive.
C18_ArchiveKept ==
    [][/\ (zip_file # NoFile => zip_file' # NoFile)
       /\ (zip_file' # NoFile => ArchiveWhole(zip_file', inodes'))]_vars

\* C20: the ledger is append-only.  Whatever operation runs (report, check,
\* verification, import, administrator's delete, reconcile, retention cleanup),
\* every committed event stays in the ledger with all its fields, a step adds at
\* most one event, and the id of an added event is greater than every id the
\* ledger holds.
C20_AppendOnly ==
    [][/\ Len(print_events') \in {Len(print_events), Len(print_events) + 1}
       /\ \A i \in 1..Len(print_events) : print_events'[i] = print_events[i]
       /\ Len(print_events') = Len(print_events) + 1
             => \A i \in 1..Len(print_events) :
                   print_events'[Len(print_events') ].id > print_events[i].id]_vars

\* C20 as the code has it: every committed event stays in the ledger with all
\* its fields, a step adds at most one event, the id of an added event differs
\* from every id the ledger holds and, where the event is inserted and
\* committed in one step ("app"), is greater than all of them; every answered
\* report for a tracking number has an event of its own.
C20_AppendOnlyDistinctIds ==
    [][/\ Len(print_events') \in {Len(print_events), Len(print_events) + 1}
       /\ \A i \in 1..Len(print_events) : print_events'[i] = print_events[i]
       /\ Len(print_events') = Len(print_events) + 1
             => \A i \in 1..Len(print_events) :
                   /\ print_events'[Len(print_events')].id # print_events[i].id
                   /\ deployment = "app"
                         => print_events'[Len(print_events')].id > print_events[i].id
       /\ \A tn \in TrackingKeys :
             acked'[tn].success + acked'[tn].other
                <= Cardinality({i \in 1..Len(print_events') :
                                   print_events'[i].tracking_no = tn})]_vars

\* the ledger holds two events of a tracking number whose row the retention
\* cleanup (or the reconcile) has deleted
C20_Witness ==
    /\ Len(print_events) >= 2
    /\ \A i \in 1..Len(print_events) : print_events[i].tracking_no \notin DOMAIN tracking_file

\* the number of ledger events for tn with result success or success_reprint
SuccessCount(tn) ==
    Cardinality({i \in EventsOf(tn) : print_events[i].result \in SuccessResults})

StatusOfCount(n) ==
    IF n = 0 THEN "not_printed" ELSE IF n = 1 THEN "printed" ELSE "reprinted"

\* C21: whenever no report is in progress the aggregate is the replay of the
\* ledger: print_count of every tracking number is the number of its
\* successful events (0 without a row) and print_status is what that count implies.
C21_AggregateIsReplay ==
    AllIdle =>
        \A tn \in TrackingKeys :
            /\ AggOf(tracking_file, tn).print_count = SuccessCount(tn)
            /\ AggOf(tracking_file, tn).print_status = StatusOfCount(SuccessCount(tn))

\* C22: no operation of the administrator other than the retention cleanup
\* removes a tracking row whose print_count is greater than 0.
C22_PrintedRowKept ==
    [][\A tn \in DOMAIN tracking_file :
          tracking_file[tn].print_count > 0 => tn \in DOMAIN tracking_file']_vars

\* no verification is between its query and its commit
NoneVerifying == \A v \in Verifiers : vreq[v].pc = "idle"

\* C23: increments of fail_count are atomic: once the verifications that ran
\* concurrently have finished, the fail_count of every active code is the
\* number of rejections since its last success, and after five of them the code
\* is locked.
C23_AtomicIncrements ==
    NoneVerifying =>
        \A id \in CodeIds :
            client_auth[id].is_active =>
                /\ failed_since_ok[id] < LockThreshold
                      => client_auth[id].fail_count = failed_since_ok[id]
                /\ failed_since_ok[id] >= LockThreshold
                      => /\ client_auth[id].fail_count >= LockThreshold
                         /\ client_auth[id].locked_until # NoTime

\* C24: a failed verification of a well-formed code adds one to fail_count of
\* exactly the codes that were compared (active and not locked then); the
\* locked and the inactive codes keep their fail_count and locked_until.
C24_OnlyComparedCounted ==
    [][(Rejects(reply'.req.code) /\ reply'.req.code \in WellFormedCodes)
          => \A id \in CodeIds :
                IF client_auth[id].is_active /\ ~is_locked(client_auth[id], now)
                THEN client_auth'[id].fail_count = client_auth[id].fail_count + 1
                ELSE /\ client_auth'[id].fail_count = client_auth[id].fail_count
                     /\ client_auth'[id].locked_until = client_auth[id].locked_until]_vars

\* main.py lines 1032-1037, clients_toggle: the administrator enables or
\* disables the code of row id; the UPDATE sets is_active only
clients_toggle(id) ==
    /\ deployment = "app"
    /\ client_auth' = [client_auth EXCEPT ![id].is_active = ~@]
    /\ UNCHANGED <<deployment, now, reportvars, outvars, filevars, vreq,
                   failed_since_ok, fifth_at, locked_at>>

\* the rows the administrator toggles
ToggleIds == {1}

\* Verifications handled concurrently while the administrator toggles codes
NextCodes ==
    \/ \E v \in Verifiers : verify_code_select(v)
    \/ \E v \in Verifiers : verify_code_commit(v)
    \/ \E v \in Verifiers : _verify_code_query(v)
    \/ \E v \in Verifiers : _verify_code_commit(v)
    \/ \E id \in ToggleIds : clients_toggle(id)

SpecCodes == InitAuth /\ [][NextCodes]_vars

\* C25: a code whose locked_until is set has a fail_count of at least five,
\* whatever verifications and toggles came before.
C25_LockedMeansFive ==
    \A id \in CodeIds :
        client_auth[id].locked_until # NoTime => client_auth[id].fail_count >= LockThreshold

\* the successful events recorded for tn
SuccessesOf(tn) == {i \in EventsOf(tn) : print_events[i].result \in SuccessResults}

\* the successful event of tn with the greatest id
LastSuccess(tn) ==
    CHOOSE i \in SuccessesOf(tn) :
        \A j \in SuccessesOf(tn) : print_events[j].id <= print_events[i].id

\* C26: whenever no report is in progress, last_print_client_name of a tracking
\* number is the host of its successful event with the greatest id, also when
\* the reports were handled concurrently.
C26_LastClientIsLatest ==
    AllIdle =>
        \A tn \in TrackingKeys :
            SuccessesOf(tn) # {} =>
                AggOf(tracking_file, tn).last_print_client_name
                    = print_events[LastSuccess(tn)].host

\* tn had no row before the first report for it: nothing was imported for it
NoRowBefore(tn) == deployment = "server" \/ tn \notin ImportedKeys

\* the one report recorded for tn, when there is exactly one
OnlyEvent(tn) == print_events[CHOOSE i \in EventsOf(tn) : TRUE]

\* the row of tn shows the outcome of one report applied to the defaults
FirstOutcome(tn) ==
    /\ HasRow(tn)
    /\ IF OnlyEvent(tn).result \in SuccessResults
       THEN tracking_file[tn].print_count = 1 /\ tracking_file[tn].print_status = "printed"
       ELSE tracking_file[tn].print_count = 0 /\ tracking_file[tn].print_status = "not_printed"

\* C27: after a report for a tracking number that had no row, the row exists
\* and shows the outcome applied to the not_printed defaults (1/printed after a
\* success, 0/not_printed after a failure); and a first report that finds the
\* row created meanwhile by a concurrent first report is recorded, not failed.
C27_FirstReportCreatesRow ==
    /\ [](AllIdle =>
            \A tn \in TrackingKeys :
                (NoRowBefore(tn) /\ Cardinality(EventsOf(tn)) = 1) => FirstOutcome(tn))
    /\ [][\A p \in Procs :
            (print_report_commit(p) /\ req[p].row = <<>> /\ HasRow(req[p].tracking_no))
                => Len(print_events') = Len(print_events) + 1]_vars

----------------------------------------------------------------------------
(* The version token of the mapping: the handlers that change the mapping,   *)
(* step by step as they commit.  In this part the clock counts half seconds.  *)

TicksPerSecond == 2
VersionHorizon == 4

\* the tracking numbers the administrator's uploads and the PDF folder hold
VersionKeys == {<<"A">>, <<"B">>}

\* now_iso(): utcnow() formatted "%Y-%m-%dT%H:%M:%SZ", the fraction dropped
now_iso(t) == t \div TicksPerSecond

\* the handler of thread p has committed its rows
Committed(p) == writer' = [writer EXCEPT ![p] = [pc |-> "version", v |-> 0, off |-> 0]]

\* main.api_apply_pdf_import, lines 700-738: the rows of the archive, db.commit()
api_apply_pdf_import_commit(p, keys) ==
    /\ deployment = "app"
    /\ writer[p].pc = "idle"
    /\ \E imported \in SUBSET keys :
          /\ imported # {}
          /\ tracking_file' = WithNew(tracking_file, imported)
    /\ Committed(p)
    /\ UNCHANGED <<deployment, now, print_events, next_id, req, loop, acked>>
    /\ UNCHANGED <<authvars, outvars, mapping_file, mapping_version, inodes, zip_file,
                   zip_tmp, builder, sidecar>>

\* main.admin_reconcile, lines 1077-1096: a row for every PDF on disk, no row
\* without its PDF, db.commit()
admin_reconcile_commit(p, keys) ==
    /\ deployment = "app"
    /\ writer[p].pc = "idle"
    /\ \E on_disk \in SUBSET keys :
          tracking_file' =
              LET tf == WithNew(tracking_file, on_disk)
              IN  [k \in {d \in DOMAIN tf : d \in on_disk} |-> tf[k]]
    /\ Committed(p)
    /\ UNCHANGED <<deployment, now, print_events, next_id, req, loop, acked>>
    /\ UNCHANGED <<authvars, outvars, mapping_file, mapping_version, inodes, zip_file,
                   zip_tmp, builder, sidecar>>

\* main.file_batch_delete_all, lines 917-928: the matching rows are deleted,
\* db.commit(); if cnt>0 the version is set and the snapshot written
file_batch_delete_all_commit(p) ==
    /\ deployment = "app"
    /\ writer[p].pc = "idle"
    /\ \E targets \in SUBSET DOMAIN tracking_file :
          /\ tracking_file' = Without(targets)
          /\ IF targets # {} THEN Committed(p) ELSE UNCHANGED writer
    /\ UNCHANGED <<deployment, now, print_events, next_id, req, loop, acked>>
    /\ UNCHANGED <<authvars, outvars, mapping_file, mapping_version, inodes, zip_file,
                   zip_tmp, builder, sidecar>>

\* set_mapping_version(db): set_kv(db, "mapping_version", now_iso())
set_mapping_version(p) ==
    /\ writer[p].pc = "version"
    /\ mapping_version' = now_iso(now)
    /\ writer' = [writer EXCEPT ![p].pc = "publish"]
    /\ UNCHANGED <<deployment, now, reportvars, authvars, outvars, mapping_file, inodes,
                   zip_file, zip_tmp, builder, sidecar>>

\* write_mapping_json, lines 278-281: the payload with get_mapping_version(db),
\* open(fp, "w")
write_mapping_json_payload(p) ==
    /\ writer[p].pc = "publish"
    /\ writer' = [writer EXCEPT ![p] = [pc |-> "dump", v |-> mapping_version, off |-> 0]]
    /\ mapping_file' = [exists |-> TRUE, data |-> <<>>]
    /\ UNCHANGED <<deployment, now, reportvars, authvars, outvars, mapping_version, inodes,
                   zip_file, zip_tmp, builder, sidecar>>

\* half a second passes
HalfSecond ==
    /\ now < VersionHorizon
    /\ now' = now + 1
    /\ UNCHANGED <<deployment, reportvars, authvars, outvars, filevars>>

NextVersion ==
    \/ \E p \in Procs : api_apply_pdf_import_commit(p, VersionKeys)
    \/ \E p \in Procs : admin_reconcile_commit(p, VersionKeys)
    \/ \E p \in Procs : file_batch_delete_all_commit(p)
    \/ \E p \in Procs : set_mapping_version(p)
    \/ \E p \in Procs : write_mapping_json_payload(p)
    \/ \E p \in Procs : write_mapping_json_dump(p)
    \/ \E p \in Procs : write_mapping_json_close(p)
    \/ cleanup_expired
    \/ HalfSecond

SpecVersion == InitAuth /\ [][NextVersion]_vars

\* what /api/v1/mapping exposes: the tracking numbers of the payload
Mappings == DOMAIN tracking_file

\* C28: the version exposed with the mapping never decreases, and between two
\* exposures whose mappings differ it increases.
C28_VersionFollowsMapping ==
    [][/\ mapping_version' >= mapping_version
       /\ Mappings' # Mappings => mapping_version' > mapping_version]_vars

----------------------------------------------------------------------------
(* Claims about the daily archive and its checksum *)

\* C29: whenever the daily archive and its .sha256 sidecar are both visible,
\* the sidecar holds the SHA-256 of the archive's current content; also between
\* the rename of a rebuilt archive and the sidecar write, and after a sidecar
\* write that failed.
C29_SidecarMatches ==
    (zip_file # NoFile /\ sidecar.exists) => sidecar.sha = sha256(inodes[zip_file])

\* thread q holds the file at the temporary path and has not finished writing it
StillWriting(q) ==
    builder[q].pc = "write" /\ builder[q].ino = zip_tmp /\ builder[q].off < NumChunks

\* thread q holds the file at the temporary path and has not promoted it yet
AwaitsPromotion(q) ==
    builder[q].pc \in {"write", "remove", "replace"} /\ builder[q].ino = zip_tmp

\* the step is taken by a thread other than q
ByOther(q) == builder'[q] = builder[q] /\ builder' # builder

\* C30: of two concurrent builds for the same date, neither promotes to the
\* visible path a temporary file the other is still writing, neither deletes
\* the other's temporary file before it is promoted, and the visible archive
\* is always the complete archive of a single build.
C30_BuildsDoNotInterfere ==
    [][/\ \A q \in Procs :
            (zip_tmp # NoFile /\ StillWriting(q) /\ ByOther(q)) => zip_file' # zip_tmp
       /\ \A q \in Procs :
            (zip_tmp # NoFile /\ AwaitsPromotion(q) /\ ByOther(q))
                => (zip_tmp' = zip_tmp \/ zip_file' = zip_tmp)
       /\ (zip_file' # NoFile => ArchiveWhole(zip_file', inodes'))]_vars

====
